---- MODULE Spec2Model ----
(***************************************************************************)
(* Live Preview Pipeline of eternitycode07: the Preview Controller and its *)
(* auto-recovery loop (PreviewEngine.tsx, LivePreview.tsx), the Document   *)
(* Synthesizer it calls and the sandboxed execution host it drives.        *)
(*                                                                         *)
(* React semantics kept by the model:                                      *)
(*  - useState values are the variables error, key, isReady,               *)
(*    autoFixAttempts, isLive; the prop is files;                          *)
(*  - a window 'message' listener and a setTimeout callback only enqueue   *)
(*    state updates; the re-render and the effects run later (Commit), so  *)
(*    the listener registered by the last commit reads the values of that  *)
(*    commit (seen), while functional updaters (prev => prev + 1) act on   *)
(*    the current state;                                                   *)
(*  - a click or a new files prop is followed by its render and effects    *)
(*    before any other event (sync), the way React flushes discrete        *)
(*    events;                                                              *)
(*  - <iframe key={key}> is replaced by a fresh, blank element when key    *)
(*    differs at render, and unmounted when files is empty.                *)
(*                                                                         *)
(* File contents are abstracted to the features that the regular           *)
(* expressions and includes() tests of the source read.                    *)
(*                                                                         *)
(* Beside the controller the module holds the Code Extractor               *)
(* (extractCodeBlocks), the chat panel with its editor (ChatPanel.tsx,     *)
(* CodePreview.tsx) and the Source Normalizer on its own (cleanReactCode   *)
(* in its three copies) and the Auto-Patcher on its own (autoFixCode),     *)
(* each under a specification of its own.                                  *)
(***************************************************************************)
EXTENDS Integers, Sequences, FiniteSets, TLC

\* ---------------------------------------------------------------- bounds
MaxKey == 7        \* cap of the iframe key (generation)
MaxMsgs == 2       \* cap of notifications in flight
MaxTimers == 2     \* cap of pending recovery timers
MaxCount == 7      \* cap of autoFixAttempts (it can pass the ceiling)
MaxActs == 3       \* cap of user actions, file changes and foreign messages

\* ------------------------------------------------------ program constants
maxAutoFixAttempts == 5
maxLivePreviewAttempts == 3

Components == {"PreviewEngine", "LivePreview"}

MaxRetriesOf(c) ==
  IF c = "PreviewEngine" THEN maxAutoFixAttempts ELSE maxLivePreviewAttempts

\* ------------------------------------------------------------ JS values
Null == "null"
Undefined == "undefined"
Truthy(v) == v \notin {Null, Undefined, ""}

\* --------------------------------------------------------- error messages
BoomMsg == "boom"
AppMissingMsg == "App component is not defined. Make sure your component is named App or exported as default."
AppRefMsg == "App is not defined"
RegexMsg == "Invalid regular expression: Unterminated group"

ErrorMsgs == {BoomMsg, AppMissingMsg, AppRefMsg, RegexMsg}

\* messages of other origin that the patch rules look for
ButtonRefMsg == "Button is not defined"
AdjacentMsg == "Adjacent JSX elements must be wrapped in an enclosing tag"
TokenMsg == "Unexpected token"

\* errorMsg.includes('is not defined')
IncludesIsNotDefined(e) == e \in {AppMissingMsg, AppRefMsg, ButtonRefMsg}

\* errorMsg.includes('Adjacent JSX elements'), includes('Unexpected token')
IncludesAdjacent(e) == e = AdjacentMsg
IncludesUnexpectedToken(e) == e = TokenMsg

\* errorMsg.match(/(\w+) is not defined/)[1]: the word right before the
\* phrase ("component" in the trailer's own message)
MissingName(e) ==
  IF e = AppMissingMsg THEN "component"
  ELSE IF e = AppRefMsg THEN "App"
  ELSE IF e = ButtonRefMsg THEN "Button"
  ELSE ""

\* /^[A-Z]/.test(name)
Capitalized(name) == name \in {"App", "Hello", "Widget", "Button"}

\* ------------------------------------------------------ file contents
\* text      "" for an empty content, else a tag naming the text
\* form      how the root component is declared: "function", "const", "none"
\* decl      the identifier it declares
\* lineStart the declaration starts a line (what /^function/m needs)
\* signals   the content holds one of the React signal tokens
\* throws    what running the content raises synchronously, or "none"; in
\*           a component-style document the content runs ahead of the
\*           trailer's try block, in a plain one inside it
\* prefix    how many export keywords are stacked before the declaration
\*           ("export default function X" has 1); lineStart then says that
\*           the declaration starts the line once they are gone
\* tag       the name in the tags <X> and </X>, or "none"
\* selfTag   the name in the tags <X />, <X/> and <X attr>, or "none"
\* ref       the name in a statement "export default X;", or "none"
\* refExport where the export keyword of that statement stands: "line" at
\*           the start of a line, "inline" further in, "none" when gone
\* ret       the return statement: "paren" for "return (", "bare" for a
\*           return followed by a tag, "fragment" once wrapped in <>...</>,
\*           "none" without one
\* braces    "tight" for "}else{" or "}catch(", "spaced" for "} else {" and
\*           "} catch (", "none" without them
Source(text, form, decl, lineStart, signals, throws, prefix, tag, selfTag, ref, refExport, ret, braces) ==
  [text |-> text, form |-> form, decl |-> decl, lineStart |-> lineStart,
   signals |-> signals, throws |-> throws, prefix |-> prefix, tag |-> tag,
   selfTag |-> selfTag, ref |-> ref, refExport |-> refExport,
   ret |-> ret, braces |-> braces]

Content(text, form, decl, lineStart, signals, throws) ==
  Source(text, form, decl, lineStart, signals, throws,
         0, "none", "none", "none", "none", "none", "none")

NoContent == Content("", "none", "none", FALSE, FALSE, "none")

CodeFile(name, content) == [name |-> name, content |-> content]

\* f.name.endsWith(ext)
EndsWith(name, ext) ==
  \/ name = "App.tsx" /\ ext = ".tsx"
  \/ name = "Widget.jsx" /\ ext = ".jsx"
  \/ name = "main.js" /\ ext = ".js"
  \/ name = "styles.css" /\ ext = ".css"
  \/ name = "index.html" /\ ext = ".html"

GoodApp == Content("app", "function", "App", TRUE, TRUE, "none")
HelloTop == Content("hello", "function", "Hello", TRUE, TRUE, "none")
HelloIndented == Content("indented", "function", "Hello", FALSE, TRUE, "none")
BoomScript == Content("boomjs", "none", "none", FALSE, FALSE, BoomMsg)
Styles == Content("css", "none", "none", FALSE, FALSE, "none")
Page == Content("page", "none", "none", FALSE, FALSE, "none")
Notes == Content("notes", "none", "none", FALSE, FALSE, "none")

FilesGood == << CodeFile("App.tsx", GoodApp) >>
FilesBoom == << CodeFile("main.js", BoomScript) >>
FilesHello == << CodeFile("App.tsx", HelloTop) >>
FilesIndented == << CodeFile("Widget.jsx", HelloIndented) >>
FilesCss == << CodeFile("styles.css", Styles) >>
FilesHtml == << CodeFile("index.html", Page), CodeFile("styles.css", Styles) >>
FilesNotes == << CodeFile("README.md", Notes) >>

\* a component that declares App and raises when its script runs, a script
\* that runs to its end, an .html file emptied in the editor
AppRaising == Content("raising", "function", "App", TRUE, TRUE, BoomMsg)
QuietScript == Content("quietjs", "none", "none", FALSE, FALSE, "none")
FilesRaising == << CodeFile("App.tsx", AppRaising) >>
FilesQuiet == << CodeFile("main.js", QuietScript) >>
FilesStyled == << CodeFile("styles.css", Styles), CodeFile("App.tsx", GoodApp) >>
FilesBlankPage == << CodeFile("index.html", NoContent), CodeFile("App.tsx", GoodApp) >>
FilesPageFirst == << CodeFile("App.tsx", GoodApp), CodeFile("index.html", Page) >>

FileSets == { <<>>, FilesGood, FilesBoom, FilesHello, FilesIndented }

\* projectFiles.find(f => exts.some(e => f.name.endsWith(e)))
NoFile == CodeFile("", NoContent)
Matches(f, exts) == \E e \in exts : EndsWith(f.name, e)
Find(fs, exts) ==
  IF \E i \in 1..Len(fs) : Matches(fs[i], exts)
  THEN fs[CHOOSE i \in 1..Len(fs) :
            /\ Matches(fs[i], exts)
            /\ \A j \in 1..(i-1) : ~Matches(fs[j], exts)]
  ELSE NoFile

\* ------------------------------------------------------ Source Normalizer
Returned(code) == [threw |-> FALSE, msg |-> "", code |-> code]
Thrown(msg) == [threw |-> TRUE, msg |-> msg, code |-> NoContent]

\* /\bfunction\s+App\s*\(/.test(cleaned) || /\bconst\s+App\s*=/.test(cleaned)
hasApp(code) == code.form \in {"function", "const"} /\ code.decl = "App"

\* whether the RegExp built for the rename finds the declaration. The
\* template literals of PreviewEngine double the backslashes
\* (`function\\\\s+${name}`), so its patterns ask for a literal backslash
\* and find nothing; those of LivePreview (`function\\s+${name}`) find it.
renamePatternFinds(c) == c # "PreviewEngine"

\* new RegExp(`^function\\\\s+${name}\\\\s*\\\\(`, 'm') of PreviewEngine ends in
\* an unterminated group and raises a SyntaxError
renamePatternRaises(c, form) == c = "PreviewEngine" /\ form = "function"

\* the RegExp `<${name}(\\s|>|\\/)` of PreviewEngine asks for a backslash
\* before s and before /, so that it only finds <Name>; `</${name}>` has
\* no backslash and finds </Name> everywhere
tagPatternFinds(c, selfClosing) == c # "PreviewEngine" \/ ~selfClosing

\* the chain of .replace() on ^export, with the flags gm: one prefix of the
\* declaration line goes, and the keyword of "export default X;" goes when
\* it starts a line
stripExports(code) ==
  [code EXCEPT !.prefix = IF @ > 0 THEN @ - 1 ELSE 0,
               !.refExport = IF @ = "line" THEN "none" ELSE @]

\* the three replacements of a rename: the declaration when its pattern
\* finds it, the opening tags, the closing tags
rename(c, code, name) ==
  [code EXCEPT !.decl = IF renamePatternFinds(c) THEN name ELSE @,
               !.tag = IF @ = code.decl /\ tagPatternFinds(c, FALSE)
                       THEN name ELSE @,
               !.selfTag = IF @ = code.decl /\ tagPatternFinds(c, TRUE)
                           THEN name ELSE @]

cleanReactCode(c, code) ==
  LET cleaned == stripExports(code)
      atLineStart == cleaned.lineStart /\ cleaned.prefix = 0
      anchored == c # "ChatPanel"
      funcMatch == cleaned.form = "function" /\ Capitalized(cleaned.decl)
                     /\ (anchored => atLineStart)
      constMatch == cleaned.form = "const" /\ Capitalized(cleaned.decl)
                      /\ (anchored => atLineStart)
  IN IF hasApp(cleaned) THEN Returned(cleaned)
     ELSE IF funcMatch \/ constMatch
     THEN IF renamePatternRaises(c, cleaned.form) THEN Thrown(RegexMsg)
          ELSE Returned(rename(c, cleaned, "App"))
     ELSE Returned(cleaned)

\* ------------------------------------------------------------ Auto-Patcher
\* a patch pattern that ends in an unterminated group, as the rename
\* pattern of the normalizer does
patchPatternUnterminated(c) == c = "PreviewEngine"

\* whether a RegExp built by autoFixCode raises: `function\\\\s+${name}` of
\* PreviewEngine and the patterns of LivePreview open no group that they
\* leave open, and the names they interpolate are made of letters and digits
patchPatternRaises(c) == FALSE

\* the rule of "is not defined". PreviewEngine renames the first declared
\* function to the missing name when that name is capitalized; LivePreview
\* renames the first declared component to App
fixNotDefined(c, code, errorMsg) ==
  LET missing == MissingName(errorMsg)
      declared == code.form \in {"function", "const"} /\ Capitalized(code.decl)
  IN IF ~IncludesIsNotDefined(errorMsg) THEN code
     ELSE IF c = "PreviewEngine"
     THEN IF Capitalized(missing) /\ declared /\ code.form = "function"
               /\ code.decl # missing /\ renamePatternFinds(c)
          THEN [code EXCEPT !.decl = missing]
          ELSE code
     ELSE IF declared /\ code.decl # "App"
          THEN rename(c, code, "App")
          ELSE code

\* whether the rule of "is not defined" builds a RegExp
fixBuildsPattern(c, code, errorMsg) ==
  LET missing == MissingName(errorMsg)
      declared == code.form \in {"function", "const"} /\ Capitalized(code.decl)
  IN /\ IncludesIsNotDefined(errorMsg)
     /\ declared
     /\ IF c = "PreviewEngine"
        THEN Capitalized(missing) /\ code.form = "function"
               /\ code.decl # missing
        ELSE code.decl # "App"

\* the rule of "Adjacent JSX elements" of PreviewEngine: a return that is
\* not "return (" gets the fragment
fixAdjacent(c, code, errorMsg) ==
  IF c = "PreviewEngine" /\ IncludesAdjacent(errorMsg) /\ code.ret = "bare"
  THEN [code EXCEPT !.ret = "fragment"]
  ELSE code

\* the rule of "Unexpected token" of PreviewEngine
fixUnexpectedToken(c, code, errorMsg) ==
  IF c = "PreviewEngine" /\ IncludesUnexpectedToken(errorMsg)
       /\ code.braces = "tight"
  THEN [code EXCEPT !.braces = "spaced"]
  ELSE code

\* the rules in their order, each on what the one before returned
autoFixCode(c, code, errorMsg) ==
  IF fixBuildsPattern(c, code, errorMsg) /\ patchPatternRaises(c)
  THEN Thrown(RegexMsg)
  ELSE Returned(fixUnexpectedToken(c,
                  fixAdjacent(c, fixNotDefined(c, code, errorMsg), errorMsg),
                  errorMsg))

\* --------------------------------------------------- Document Synthesizer
Doc(strategy, code, css) == [strategy |-> strategy, code |-> code, css |-> css]
NoDoc == Doc("none", NoContent, "")

Html(doc) == [threw |-> FALSE, msg |-> "", doc |-> doc]
SynthThrown(msg) == [threw |-> TRUE, msg |-> msg, doc |-> NoDoc]

isReact(c, jsFile) ==
  \/ EndsWith(jsFile.name, ".jsx")
  \/ EndsWith(jsFile.name, ".tsx")
  \/ jsFile.content.signals
  \/ c = "LivePreview" /\ jsFile.content.form \in {"function", "const"}

generatePreviewHtml(c, projectFiles, attemptFix, err) ==
  LET htmlFile == Find(projectFiles, {".html"})
      cssFile == Find(projectFiles, {".css"})
      jsFile == Find(projectFiles, {".js", ".jsx", ".ts", ".tsx"})
      cssContent == cssFile.content.text
      jsContent == jsFile.content
      cleaned == cleanReactCode(c, jsContent)
      patched == IF attemptFix /\ Truthy(err)
                 THEN autoFixCode(c, cleaned.code, err)
                 ELSE cleaned
  IN IF htmlFile # NoFile /\ (c = "LivePreview" \/ htmlFile.content.text # "")
     THEN IF htmlFile.content.text = "" THEN Html(NoDoc)
          ELSE Html(Doc("html", htmlFile.content, cssContent))
     ELSE IF isReact(c, jsFile) /\ jsContent.text # ""
     THEN IF cleaned.threw THEN SynthThrown(cleaned.msg)
          ELSE IF patched.threw THEN SynthThrown(patched.msg)
          ELSE Html(Doc("react", patched.code, cssContent))
     ELSE IF jsContent.text # "" THEN Html(Doc("plain", jsContent, cssContent))
     ELSE IF cssContent # "" THEN Html(Doc("css", NoContent, cssContent))
     ELSE Html(NoDoc)

\* ---------------------------------------------------- bootstrap trailer
Notification(type, err, gen, src) ==
  [type |-> type, error |-> err, gen |-> gen, src |-> src]

\* the notification one execution of doc posts ("none": it posts nothing).
\* The script block of a component-style document holds the user code and,
\* after it, the trailer: what the user code raises ends the script before
\* the try block is entered, and no handler of uncaught errors is installed.
Trailer(c, doc) ==
  IF doc.strategy = "react"
  THEN IF ~hasApp(doc.code)
       THEN IF c = "PreviewEngine"
            THEN [type |-> "preview-error", error |-> AppMissingMsg]
            ELSE [type |-> "preview-error", error |-> AppRefMsg]
       ELSE IF doc.code.throws # "none"
            THEN [type |-> "none", error |-> Undefined]
            ELSE [type |-> "preview-ready", error |-> Undefined]
  ELSE IF doc.strategy = "plain"
  THEN IF doc.code.throws # "none"
       THEN [type |-> "preview-error", error |-> doc.code.throws]
       ELSE [type |-> "preview-ready", error |-> Undefined]
  ELSE IF doc.strategy = "css"
  THEN [type |-> "preview-ready", error |-> Undefined]
  ELSE [type |-> "none", error |-> Undefined]

\* ------------------------------------------------------- Code Extractor
\* A file name is kept as its stem, the number a synthesized name carries
\* (0 in a name read from the text) and its extension.
Name(stem, n, ext) == [stem |-> stem, n |-> n, ext |-> ext]
NoName == Name("", 0, "")
AppTsx == Name("App", 0, "tsx")
UtilJs == Name("util", 0, "js")
Code1Js == Name("code", 1, "js")

\* A message content is a sequence of pieces: prose, and fenced blocks.
\* A prose piece carries what the three patterns of extractFilename find in
\* it (a path, or NoPath); a block carries its info word and its body.
Path(dir, file) == [dir |-> dir, file |-> file]
NoPath == Path("", NoName)
Prose(kw, tick, bare) ==
  [kind |-> "prose", kw |-> kw, tick |-> tick, bare |-> bare,
   lang |-> "", body |-> ""]
Block(lang, body) ==
  [kind |-> "block", kw |-> NoPath, tick |-> NoPath, bare |-> NoPath,
   lang |-> lang, body |-> body]
NoProse == Prose(NoPath, NoPath, NoPath)

Message(role, content) == [role |-> role, content |-> content]

\* language.toLowerCase()
ToLowerCase(language) ==
  IF language = "TS" THEN "ts"
  ELSE IF language = "JavaScript" THEN "javascript"
  ELSE language

\* a lookup of the extensions table that never finds its key
extensionAlwaysTxt(language) == "txt"

\* the extensions table, || 'txt'
getExtension(language) ==
  LET l == ToLowerCase(language)
  IN IF l \in {"typescript", "tsx"} THEN "tsx"
     ELSE IF l = "ts" THEN "ts"
     ELSE IF l \in {"javascript", "js"} THEN "js"
     ELSE IF l = "jsx" THEN "jsx"
     ELSE IF l = "python" THEN "py"
     ELSE IF l \in {"css", "html", "json", "sql"} THEN l
     ELSE IF l \in {"bash", "shell"} THEN "sh"
     ELSE IF l = "markdown" THEN "md"
     ELSE "txt"

\* the keys of the two tables
ExtensionKeys ==
  {"typescript", "tsx", "ts", "javascript", "jsx", "js", "python", "css",
   "html", "json", "sql", "bash", "shell", "markdown"}
LanguageMapKeys == {"ts", "tsx", "js", "jsx", "py", "sh", "bash"}

\* the languageMap table, || language.toLowerCase()
mapLanguage(language) ==
  LET l == ToLowerCase(language)
  IN IF l \in {"ts", "tsx"} THEN "typescript"
     ELSE IF l \in {"js", "jsx"} THEN "javascript"
     ELSE IF l = "py" THEN "python"
     ELSE IF l \in {"sh", "bash"} THEN "shell"
     ELSE l

\* match[2].trim()
Trim(body) ==
  IF body = "blank" THEN ""
  ELSE IF body = "padded" THEN "b1"
  ELSE body

\* parts[parts.length - 1] of match[1].split('/')
LastPart(path) == path.file

\* extractFilename(content, codeBlockIndex): the window before the fence is
\* the prose piece that precedes the block, the patterns are tried in the
\* order of the patterns array
extractFilename(content, j) ==
  LET beforeBlock == IF j > 1 /\ content[j-1].kind = "prose"
                     THEN content[j-1] ELSE NoProse
  IN IF beforeBlock.kw # NoPath THEN LastPart(beforeBlock.kw)
     ELSE IF beforeBlock.tick # NoPath THEN LastPart(beforeBlock.tick)
     ELSE IF beforeBlock.bare # NoPath THEN LastPart(beforeBlock.bare)
     ELSE NoName

ExtractedFile(name, language, content) ==
  [name |-> name, language |-> language, content |-> content]

\* files.findIndex(f => f.name === filename), 0 for -1
findIndex(fs, filename) ==
  IF \E i \in 1..Len(fs) : fs[i].name = filename
  THEN CHOOSE i \in 1..Len(fs) :
         /\ fs[i].name = filename
         /\ \A k \in 1..(i-1) : fs[k].name # filename
  ELSE 0

\* what the scan carries: the files so far, fileCounter, and the lastIndex
\* of codeBlockRegex (counted in pieces)
Scan(fs, fileCounter, lastIndex) ==
  [files |-> fs, fileCounter |-> fileCounter, lastIndex |-> lastIndex]

pushAlways(st, file) ==
  [st EXCEPT !.files = Append(st.files, file),
             !.fileCounter = st.fileCounter + 1]

\* "Avoid duplicates - update if same name exists"
upsert(st, file) ==
  LET existingIndex == findIndex(st.files, file.name)
  IN IF existingIndex > 0
     THEN [st EXCEPT !.files[existingIndex] = file]
     ELSE [st EXCEPT !.files = Append(st.files, file),
                     !.fileCounter = st.fileCounter + 1]

\* codeBlockRegex.exec(message.content): the index of the next match from
\* lastIndex on, 0 for null
exec(content, lastIndex) ==
  IF \E j \in (lastIndex+1)..Len(content) : content[j].kind = "block"
  THEN CHOOSE j \in (lastIndex+1)..Len(content) :
         /\ content[j].kind = "block"
         /\ \A k \in (lastIndex+1)..(j-1) : content[k].kind # "block"
  ELSE 0

lastIndexKept(content, j) == IF j = 0 THEN Len(content) ELSE j

\* lastIndex after exec: the end of the match, and 0 after a null
lastIndexAfter(content, j) == IF j = 0 THEN 0 ELSE j

\* the body of the while loop for the match at piece j
onMatch(content, j, st) ==
  LET language == IF content[j].lang # "" THEN content[j].lang ELSE "text"
      body == Trim(content[j].body)
      inferred == extractFilename(content, j)
      filename == IF inferred # NoName THEN inferred
                  ELSE Name("code", st.fileCounter, getExtension(language))
  IN IF body # ""
     THEN upsert(st, ExtractedFile(filename, mapLanguage(language), body))
     ELSE st

RECURSIVE scanMessage(_, _)
scanMessage(content, st) ==
  LET j == exec(content, st.lastIndex)
      after == [st EXCEPT !.lastIndex = lastIndexAfter(content, j)]
  IN IF j = 0 THEN after
     ELSE scanMessage(content, onMatch(content, j, after))

RECURSIVE scanMessages(_, _, _)
scanMessages(ms, i, st) ==
  IF i > Len(ms) THEN st
  ELSE scanMessages(ms, i + 1, scanMessage(ms[i].content, st))

isAssistant(m) == m.role = "assistant"

extractScan(ms) == scanMessages(SelectSeq(ms, isAssistant), 1, Scan(<<>>, 1, 0))

extractCodeBlocks(ms) == extractScan(ms).files

\* ------------------------------------------------------------------ state
VARIABLES
  component,        \* which controller is mounted
  files,            \* the files prop
  error,            \* useState<string | null>(null)
  key,              \* useState(0): the generation
  isReady,          \* useState(false)
  autoFixAttempts,  \* useState(0): the retry count
  isLive,           \* useState(true)
  seen,             \* the state values read by the last commit
  host,             \* the mounted iframe: its key, document, and whether
                    \* the document has run
  msgs,             \* notifications posted to the window, not yet handled
  timers,           \* pending setTimeout(() => setKey(prev => prev + 1))
  sync,             \* "none", or the discrete event whose render is due
  acts,             \* user actions, file changes and foreign messages so far
  exported,         \* what the last Open externally handed to the new window
  messages,         \* useChat: the conversation
  previewFiles,     \* ChatPanel: useState<CodeFile[]>([])
  editedFiles,      \* CodePreview: useState<Map<string, string>>(new Map())
  rightPanelTab,    \* ChatPanel: useState('preview')
  code,             \* the argument of cleanReactCode and of autoFixCode
  cleaned,          \* what cleanReactCode returned, pass after pass
  fixed             \* the calls of autoFixCode: error message and result

vars == <<component, files, error, key, isReady, autoFixAttempts, isLive,
          seen, host, msgs, timers, sync, acts, exported,
          messages, previewFiles, editedFiles, rightPanelTab,
          code, cleaned, fixed>>

\* the argument and the results of the Source Normalizer and of the
\* Auto-Patcher
normalizer == <<code, cleaned, fixed>>

\* the state of the chat panel and its code editor
chat == <<messages, previewFiles, editedFiles, rightPanelTab>>

\* the state of the preview controller
session == <<component, files, error, key, isReady, autoFixAttempts, isLive,
             seen, host, msgs, timers, sync, acts, exported>>

\* new Map()
EmptyMap == [n \in {} |-> ""]

Deps == [files |-> files, error |-> error, key |-> key,
         autoFixAttempts |-> autoFixAttempts, isLive |-> isLive]

NoKey == 0 - 1
Host(k, doc, ran) == [key |-> k, doc |-> doc, ran |-> ran]
NoHost == Host(NoKey, NoDoc, FALSE)

\* nothing has been opened externally yet
NotExported == [threw |-> FALSE, msg |-> "none", doc |-> NoDoc]

\* the state after construction, whichever component is mounted
Fresh ==
  /\ files = <<>>
  /\ error = Null
  /\ key = 0
  /\ isReady = FALSE
  /\ autoFixAttempts = 0
  /\ isLive = TRUE
  /\ seen = Deps
  /\ host = NoHost
  /\ msgs = <<>>
  /\ timers = 0
  /\ sync = "none"
  /\ acts = 0
  /\ exported = NotExported
  /\ messages = <<>>
  /\ previewFiles = <<>>
  /\ editedFiles = EmptyMap
  /\ rightPanelTab = "preview"
  /\ fixed = <<>>

Init ==
  /\ component \in Components
  /\ Fresh
  /\ code = NoContent
  /\ cleaned = <<>>

\* ----------------------------------------------------------------- render
\* a render that would replace the iframe by a fresh one each time
MountedAfresh ==
  IF files = <<>> THEN NoHost ELSE Host(key, NoDoc, FALSE)

\* what the JSX returned for the current state mounts: no iframe when files
\* is empty, the same iframe while key is the same, a fresh blank one else
Mounted ==
  IF files = <<>> THEN NoHost
  ELSE IF host.key = key THEN host
  ELSE Host(key, NoDoc, FALSE)

\* the guard of the update-preview effect
effectSkips == files = <<>> \/ (component = "PreviewEngine" /\ ~isLive)

\* Re-render and effects: the message listener is registered again with the
\* current autoFixAttempts and isLive, and the update-preview effect runs
\* (one of its dependencies changed, or Commit would not be enabled).
Commit ==
  /\ seen # Deps
  /\ seen' = Deps
  /\ sync' = "none"
  /\ IF effectSkips
     THEN /\ host' = Mounted
          /\ UNCHANGED <<isReady, error>>
     ELSE LET htmlContent ==
                generatePreviewHtml(component, files, autoFixAttempts > 0, error)
          IN /\ isReady' = FALSE
             /\ IF htmlContent.threw
                THEN /\ error' = htmlContent.msg
                     /\ host' = Mounted
                ELSE /\ error' = error
                     /\ host' = IF htmlContent.doc # NoDoc
                                THEN Host(Mounted.key, htmlContent.doc, FALSE)
                                ELSE Mounted
  /\ UNCHANGED <<chat, normalizer, component, exported, files, key, autoFixAttempts, isLive, msgs, timers,
                 acts>>

\* --------------------------------------------------------- execution host
\* the document loaded in the mounted iframe runs and its trailer posts
Execute ==
  /\ sync = "none"
  /\ host.doc # NoDoc
  /\ ~host.ran
  /\ Len(msgs) < MaxMsgs
  /\ LET n == Trailer(component, host.doc)
     IN msgs' = IF n.type = "none" THEN msgs
                ELSE Append(msgs, Notification(n.type, n.error, host.key, "host"))
  /\ host' = [host EXCEPT !.ran = TRUE]
  /\ UNCHANGED <<chat, normalizer, component, exported, files, error, key, isReady, autoFixAttempts,
                 isLive, seen, timers, sync, acts>>

\* another script posts a message of another shape to the window
ForeignShapes ==
  { Notification("other", Undefined, NoKey, "foreign"),
    Notification("preview-error", Undefined, NoKey, "foreign") }

ForeignPost ==
  /\ sync = "none"
  /\ Len(msgs) < MaxMsgs
  /\ acts < MaxActs
  /\ acts' = acts + 1
  /\ \E m \in ForeignShapes : msgs' = Append(msgs, m)
  /\ UNCHANGED <<chat, normalizer, component, exported, files, error, key, isReady, autoFixAttempts,
                 isLive, seen, host, timers, sync>>

\* -------------------------------------------------------------- controller
retryGuardOffByOne(attempts, live) ==
  /\ attempts <= MaxRetriesOf(component)
  /\ (component = "LivePreview" \/ live)

\* the retry guard of the listener: it reads the values of its closure
retryGuard(attempts, live) ==
  /\ attempts < MaxRetriesOf(component)
  /\ (component = "LivePreview" \/ live)

schedulesRetry(m) ==
  m.type = "preview-error" /\ retryGuard(seen.autoFixAttempts, seen.isLive)

handleMessage(m) ==
  IF m.type = "preview-ready"
  THEN /\ isReady' = TRUE
       /\ error' = Null
       /\ autoFixAttempts' = 0
       /\ UNCHANGED timers
  ELSE IF m.type = "preview-error"
  THEN /\ error' = m.error
       /\ UNCHANGED isReady
       /\ IF retryGuard(seen.autoFixAttempts, seen.isLive)
          THEN /\ autoFixAttempts' = autoFixAttempts + 1
               /\ timers' = timers + 1
          ELSE UNCHANGED <<autoFixAttempts, timers>>
  ELSE UNCHANGED <<isReady, error, autoFixAttempts, timers>>

Deliver ==
  /\ sync = "none"
  /\ msgs # <<>>
  /\ schedulesRetry(Head(msgs)) =>
       (timers < MaxTimers /\ autoFixAttempts < MaxCount)
  /\ handleMessage(Head(msgs))
  /\ msgs' = Tail(msgs)
  /\ UNCHANGED <<chat, normalizer, component, exported, files, key, isLive, seen, host, sync, acts>>

\* setTimeout(() => setKey(prev => prev + 1), 150)
TimerFire ==
  /\ sync = "none"
  /\ timers > 0
  /\ key < MaxKey
  /\ key' = key + 1
  /\ timers' = timers - 1
  /\ UNCHANGED <<chat, normalizer, component, exported, files, error, isReady, autoFixAttempts, isLive,
                 seen, host, msgs, sync, acts>>

\* ------------------------------------------------------------ user actions
\* the toolbar exists in the committed render only when files is non-empty
toolbarShown == sync = "none" /\ seen.files # <<>>

handleRefreshKeepsCount ==
  /\ autoFixAttempts' = autoFixAttempts
  /\ error' = Null
  /\ key' = key + 1

handleRefresh ==
  /\ autoFixAttempts' = 0
  /\ error' = Null
  /\ key' = key + 1

Refresh ==
  /\ toolbarShown
  /\ key < MaxKey
  /\ handleRefresh
  /\ acts < MaxActs
  /\ acts' = acts + 1
  /\ sync' = "user"
  /\ UNCHANGED <<chat, normalizer, component, exported, files, isReady, isLive, seen, host, msgs, timers>>

toggleLive ==
  /\ isLive' = ~isLive
  /\ IF ~isLive THEN handleRefresh
     ELSE UNCHANGED <<autoFixAttempts, error, key>>

ToggleLive ==
  /\ toolbarShown
  /\ component = "PreviewEngine"
  /\ ~isLive => key < MaxKey
  /\ toggleLive
  /\ acts < MaxActs
  /\ acts' = acts + 1
  /\ sync' = "user"
  /\ UNCHANGED <<chat, normalizer, component, exported, files, isReady, seen, host, msgs, timers>>

\* const htmlContent = generatePreviewHtml(files): attemptFix keeps its
\* default false, and nothing catches what the call raises
handleOpenExternal == generatePreviewHtml(component, files, FALSE, error)

OpenExternal ==
  /\ toolbarShown
  /\ acts < MaxActs
  /\ acts' = acts + 1
  /\ exported' = handleOpenExternal
  /\ UNCHANGED <<chat, normalizer, component, files, error, key, isReady,
                 autoFixAttempts, isLive, seen, host, msgs, timers, sync>>

\* the parent renders the controller with another files prop
FilesChangeTo(f) ==
  /\ sync = "none"
  /\ acts < MaxActs
  /\ acts' = acts + 1
  /\ f # files
  /\ files' = f
  /\ sync' = "files"
  /\ UNCHANGED <<chat, normalizer, component, exported, error, key, isReady, autoFixAttempts, isLive,
                 seen, host, msgs, timers>>

FilesChange == \E f \in FileSets : FilesChangeTo(f)

Next ==
  \/ Commit
  \/ Execute
  \/ Deliver
  \/ TimerFire
  \/ Refresh
  \/ ToggleLive
  \/ FilesChange

Spec == Init /\ [][Next]_vars

\* the same session on a window that other scripts post messages to
NextOpen ==
  \/ Next
  \/ ForeignPost

SpecOpen == Init /\ [][NextOpen]_vars

\* the same session with the Open externally button in use
NextExport ==
  \/ Next
  \/ OpenExternal

SpecExport == Init /\ [][NextExport]_vars

TypeOK ==
  /\ component \in Components
  /\ files \in FileSets
  /\ key \in 0..MaxKey
  /\ autoFixAttempts \in 0..MaxCount
  /\ timers \in 0..MaxTimers
  /\ Len(msgs) <= MaxMsgs
  /\ isReady \in BOOLEAN /\ isLive \in BOOLEAN

\* ---------------------------------------------- chat panel and editor
MaxMessages == 3   \* cap of the conversation length

\* the message contents the conversation draws from
TwoNamed ==
  << Prose(NoPath, Path("", AppTsx), NoPath), Block("tsx", "b1"),
     Prose(Path("src/", UtilJs), NoPath, NoPath), Block("js", "b2") >>
Rewrite ==
  << Prose(NoPath, NoPath, Path("", AppTsx)), Block("JavaScript", "b3") >>
Unnamed == << Block("js", "padded"), Block("", "b2"), Block("TS", "blank") >>
Collide ==
  << Block("python", "b1"), Prose(NoPath, Path("", Code1Js), NoPath),
     Block("js", "b3") >>
Chatter == << Prose(NoPath, Path("", AppTsx), NoPath) >>
\* "Create util.js, then put this in the file `src/App.tsx`:" and a block
TwoHints ==
  << Prose(Path("", UtilJs), Path("src/", AppTsx), NoPath), Block("tsx", "b1") >>

Polyglot == << Block("markdown", "b1"), Block("sh", "b2"), Block("css", "b3") >>

Contents == {TwoNamed, Rewrite, Unnamed, Collide, Chatter, TwoHints, Polyglot}

Incoming ==
  {Message("assistant", c) : c \in Contents}
    \cup {Message("user", TwoNamed), Message("assistant", <<>>)}

\* the messages of the conversations in which the editor is used
Edited == {Message("assistant", TwoNamed), Message("assistant", Rewrite),
           Message("user", TwoNamed)}

\* the values the user may type into the editor
EditValues == {"e1", "b1"}

\* useMemo(() => extractCodeBlocks(messages), [messages])
codeFiles == extractCodeBlocks(messages)

\* prev => new Map(prev).set(k, v) and next.delete(k)
MapSet(map, k, v) ==
  [n \in DOMAIN map \cup {k} |-> IF n = k THEN v ELSE map[n]]
MapDelete(map, k) == [n \in DOMAIN map \ {k} |-> map[n]]

\* setMessages(prev => [...prev, m]); the render that follows recomputes
\* codeFiles and runs the auto-run effect
Receive(m) ==
  /\ Len(messages) < MaxMessages
  /\ messages' = Append(messages, m)
  /\ previewFiles' = IF Len(extractCodeBlocks(messages')) > 0
                     THEN extractCodeBlocks(messages')
                     ELSE previewFiles
  /\ UNCHANGED <<editedFiles, rightPanelTab>>
  /\ UNCHANGED <<session, normalizer>>

\* <CodePreview> is rendered under the code tab only: its state starts
\* anew each time it is mounted
SelectTab(t) ==
  /\ t # rightPanelTab
  /\ rightPanelTab' = t
  /\ editedFiles' = EmptyMap
  /\ UNCHANGED <<messages, previewFiles>>
  /\ UNCHANGED <<session, normalizer>>

editorShown == rightPanelTab = "code" /\ Len(codeFiles) > 0

handleEditorChange(currentFile, value) ==
  IF value = currentFile.content
  THEN editedFiles' = MapDelete(editedFiles, currentFile.name)
  ELSE editedFiles' = MapSet(editedFiles, currentFile.name, value)

EditorChange ==
  /\ editorShown
  /\ \E i \in 1..Len(codeFiles), value \in EditValues :
       handleEditorChange(codeFiles[i], value)
  /\ UNCHANGED <<messages, previewFiles, rightPanelTab>>
  /\ UNCHANGED <<session, normalizer>>

\* the Reset button exists while the current file has an edit
handleReset ==
  /\ editorShown
  /\ \E i \in 1..Len(codeFiles) :
       /\ codeFiles[i].name \in DOMAIN editedFiles
       /\ editedFiles' = MapDelete(editedFiles, codeFiles[i].name)
  /\ UNCHANGED <<messages, previewFiles, rightPanelTab>>
  /\ UNCHANGED <<session, normalizer>>

\* files.map(f => ({...f, content: editedFiles.get(f.name) ?? f.content}))
updatedFiles(fs, edits) ==
  [i \in 1..Len(fs) |->
     [fs[i] EXCEPT !.content = IF fs[i].name \in DOMAIN edits
                               THEN edits[fs[i].name]
                               ELSE fs[i].content]]

\* handleRun calls onRunCode = handleRunCode: setPreviewFiles(files) and
\* setRightPanelTab('preview'), which unmounts the editor
handleRun ==
  /\ editorShown
  /\ previewFiles' = updatedFiles(codeFiles, editedFiles)
  /\ rightPanelTab' = "preview"
  /\ editedFiles' = EmptyMap
  /\ UNCHANGED messages
  /\ UNCHANGED <<session, normalizer>>

\* the conversation alone: every render extracts the files again
NextExtract == \E m \in Incoming : Receive(m)

SpecExtract == Init /\ [][NextExtract]_vars

NextChat ==
  \/ \E m \in Edited : Receive(m)
  \/ \E t \in {"code", "preview"} : SelectTab(t)
  \/ EditorChange
  \/ handleReset
  \/ handleRun

SpecChat == Init /\ [][NextChat]_vars

\* ------------------------------------------------ the normalizer alone
MaxPasses == 2     \* cap of the successive passes of cleanReactCode

\* the three copies of the normalizer: cleanReactCode of PreviewEngine and
\* of LivePreview, and the inline one of ChatPanel's generatePreviewHtml
Normalizers == Components \cup {"ChatPanel"}

Sources ==
  { Source("src", form, decl, lineStart, TRUE, "none",
           prefix, tag, selfTag, ref, refExport, "none", "none") :
      form \in {"function", "const"}, decl \in {"App", "Widget", "helper"},
      lineStart \in BOOLEAN, prefix \in 0..2,
      tag \in {"none", "Widget"}, selfTag \in {"none", "Widget"},
      ref \in {"none", "Widget"}, refExport \in {"none", "line", "inline"} }

\* tags and references name the declared component; an export keyword of
\* "export default X;" needs the statement
WellFormedSource(src) ==
  /\ src.tag \in {"none", src.decl}
  /\ src.selfTag \in {"none", src.decl}
  /\ src.ref \in {"none", src.decl}
  /\ src.refExport # "none" => src.ref # "none"

InitNormalize ==
  /\ component \in Normalizers
  /\ Fresh
  /\ code \in {src \in Sources : WellFormedSource(src)}
  /\ cleaned = <<>>

\* one more pass: on the source first, then on what the last pass returned
Normalize ==
  /\ Len(cleaned) < MaxPasses
  /\ cleaned # <<>> => ~cleaned[Len(cleaned)].threw
  /\ cleaned' = Append(cleaned,
                  cleanReactCode(component,
                    IF cleaned = <<>> THEN code
                    ELSE cleaned[Len(cleaned)].code))
  /\ UNCHANGED <<session, chat, code, fixed>>

SpecNormalize == InitNormalize /\ [][Normalize]_vars

\* ------------------------------------------------- the patcher alone
MaxPatches == 1    \* cap of the calls of autoFixCode on one source

\* the error messages autoFixCode is called with
PatchMsgs ==
  {BoomMsg, AppMissingMsg, AppRefMsg, ButtonRefMsg, AdjacentMsg, TokenMsg}

PatchSources ==
  { Source("src", form, decl, lineStart, TRUE, "none",
           0, tag, selfTag, "none", "none", ret, braces) :
      form \in {"function", "const"}, decl \in {"App", "Widget", "helper"},
      lineStart \in BOOLEAN,
      tag \in {"none", "Widget"}, selfTag \in {"none", "Widget"},
      ret \in {"none", "bare", "paren"},
      braces \in {"none", "tight", "spaced"} }

InitPatch ==
  /\ component \in Components
  /\ Fresh
  /\ code \in {src \in PatchSources : WellFormedSource(src)}
  /\ cleaned = <<>>

\* autoFixCode(code, errorMsg)
Patch ==
  /\ Len(fixed) < MaxPatches
  /\ \E errorMsg \in PatchMsgs :
       fixed' = Append(fixed, [errorMsg |-> errorMsg,
                               result |-> autoFixCode(component, code, errorMsg)])
  /\ UNCHANGED <<session, chat, code, cleaned>>

SpecPatch == InitPatch /\ [][Patch]_vars

\* ------------------------------------------- the always-failing sandbox
\* A fixed file set whose script raises BoomMsg on every execution, live
\* mode on, no user action and no foreign message.
BoomArrives == files = <<>> /\ FilesChangeTo(FilesBoom)

NextExhaust ==
  \/ BoomArrives
  \/ Commit
  \/ Execute
  \/ Deliver
  \/ TimerFire

SpecExhaust == Init /\ [][NextExhaust]_vars

FairExhaust ==
  /\ SpecExhaust
  /\ WF_vars(BoomArrives) /\ WF_vars(Commit) /\ WF_vars(Execute)
  /\ WF_vars(Deliver) /\ WF_vars(TimerFire)

\* ------------------------------------------- one file set, no user action
\* The controller is given one file set, of any of the kinds the
\* synthesizer tells apart, and the session runs on its own from there.
SandboxFileSets ==
  (FileSets \ {<<>>})
    \cup {FilesCss, FilesHtml, FilesNotes, FilesRaising, FilesQuiet,
          FilesStyled, FilesBlankPage, FilesPageFirst}

FilesArrive == files = <<>> /\ \E f \in SandboxFileSets : FilesChangeTo(f)

NextSandbox ==
  \/ FilesArrive
  \/ Commit
  \/ Execute
  \/ Deliver
  \/ TimerFire

SpecSandbox == Init /\ [][NextSandbox]_vars

\* ------------------------------------------------------------- vocabulary
MaxRetries == MaxRetriesOf(component)

\* the step handles the notification at the head of the queue
Delivering == msgs # <<>> /\ msgs' = Tail(msgs)

\* the step mounts another host or loads a document into the host
HostLoaded == host' # host /\ host' # [host EXCEPT !.ran = TRUE]

\* nothing is pending: the render is committed, no notification is in
\* flight, no timer is pending and the loaded document has run
Quiescent ==
  /\ seen = Deps
  /\ msgs = <<>>
  /\ timers = 0
  /\ host.doc # NoDoc => host.ran

\* the give-up state of the recovery loop, once its timers have fired
Failed ==
  /\ autoFixAttempts >= MaxRetries
  /\ timers = 0
  /\ seen = Deps

\* the step is the render with its effects
Committing == seen' # seen

\* the step is a click on Open externally
Exporting == acts' # acts /\ sync' = sync /\ msgs' = msgs /\ files' = files

\* the two shapes of the notification channel
WellFormed(m) ==
  \/ m.type = "preview-ready"
  \/ m.type = "preview-error" /\ m.error \in ErrorMsgs

\* ------------------------------------------------------------------ claims

\* C1 (as stated): once maxRetries preview-error notifications have been
\* reported, which is when retryCount reaches maxRetries, no document is
\* synthesized and loaded any more.
C1_NoSynthesisAfterMaxErrors ==
  [][autoFixAttempts >= MaxRetries => ~HostLoaded]_vars

\* C1 (amended): the error that brings retryCount to maxRetries still
\* schedules its retry; once retryCount has reached maxRetries, the pending
\* recovery timers have fired and the render is committed, the session is
\* Failed for good: no host is mounted, no document is loaded, no timer is
\* scheduled, and retryCount and generation stay as they are.
C1_FailedIsFinal ==
  [][Failed => /\ ~HostLoaded
               /\ timers' = 0
               /\ autoFixAttempts' = autoFixAttempts
               /\ key' = key
               /\ Failed']_vars

C1_Witness ==
  /\ files = FilesBoom
  /\ Failed
  /\ Quiescent
  /\ error = BoomMsg
  /\ key >= MaxRetries

\* C9: with a source whose every execution reports BoomMsg, a message no
\* patch rule matches, the session that has come to rest is Failed with
\* retryCount = maxRetries, ready = false and lastError = BoomMsg.
C9_ExhaustedAtCeiling ==
  (files = FilesBoom /\ Quiescent /\ host.ran) =>
     /\ autoFixAttempts = MaxRetries
     /\ ~isReady
     /\ error = BoomMsg

\* C2: a notification posted by a host whose generation is older than the
\* current one leaves ready, lastError, retryCount, generation and the
\* pending recovery timers unchanged.
C2_StaleNotificationIgnored ==
  [][(Delivering /\ Head(msgs).src = "host" /\ Head(msgs).gen < key) =>
       UNCHANGED <<isReady, error, autoFixAttempts, key, timers>>]_vars

\* C3: handling preview-ready makes the session Ready (ready, retryCount 0,
\* lastError null), and while the file set stays the same and the user does
\* nothing a Ready session with nothing in flight stays Ready and loads no
\* document.
C3_ReadyIsFinal ==
  [][/\ (Delivering /\ Head(msgs).type = "preview-ready") =>
          (isReady' /\ autoFixAttempts' = 0 /\ error' = Null)
     /\ (isReady /\ sync = "none" /\ msgs = <<>> /\ timers = 0
           /\ files' = files /\ acts' = acts) =>
          (isReady' /\ ~HostLoaded)]_vars

\* C4: switching isLive off, or changing the file set, discards the
\* pending recovery timers.
C4_TimersCancelled ==
  [][((isLive /\ ~isLive') \/ files' # files) => timers' = 0]_vars

\* C5: while isLive stays false and the user does not refresh, the mounted
\* host, its document and the generation do not change (the render of an
\* empty file set, which is the step to Idle, is left out).
C5_FrozenWhilePaused ==
  [][(~isLive /\ ~isLive' /\ sync # "user" /\ sync' # "user"
        /\ files # <<>>) =>
       (~HostLoaded /\ key' = key)]_vars

\* C6: switching isLive from false to true is one manual refresh: retryCount
\* becomes 0, lastError null, generation grows by exactly 1, and the render
\* that follows loads the document synthesized without patching from the
\* current file set into the fresh host of that generation.
UnpatchedDoc ==
  LET html == generatePreviewHtml(component, files, FALSE, Null)
  IN IF html.threw THEN NoDoc ELSE html.doc

C7_FailedIsTerminal ==
  [][/\ (Delivering /\ Head(msgs).type = "preview-error"
            /\ autoFixAttempts >= MaxRetries) =>
          UNCHANGED <<autoFixAttempts, key, timers>>
     /\ (sync = "none" /\ sync' = "user" /\ isLive' = isLive) =>
          (autoFixAttempts' = 0 /\ error' = Null /\ key' = key + 1)]_vars

\* C8: while the file set is empty no host is mounted, and no notification
\* or timer mounts one, schedules a retry or changes retryCount.
C8_IdleWhileEmpty ==
  [][(files = <<>> /\ seen.files = <<>> /\ files' = <<>>) =>
       (/\ host' = NoHost
        /\ timers' <= timers
        /\ autoFixAttempts' = autoFixAttempts)]_vars

\* C10: a message that has neither of the two shapes changes nothing and
\* schedules nothing.
C10_OtherShapesIgnored ==
  [][(Delivering /\ ~WellFormed(Head(msgs))) =>
       UNCHANGED <<isReady, error, autoFixAttempts, key, timers>>]_vars

\* C11: no call of generatePreviewHtml raises, neither the one of the update
\* step nor the one of Open externally.
C11_SynthesisNeverThrows ==
  [][/\ (Committing /\ ~effectSkips) =>
          ~generatePreviewHtml(component, files, autoFixAttempts > 0,
                               error).threw
     /\ Exporting => ~exported'.threw]_vars

\* C12: the document Open externally hands to the new window, when the call
\* returns one, is the document loaded in the mounted host.
C12_ExportIsMounted ==
  [][(Exporting /\ ~exported'.threw) => exported'.doc = host.doc]_vars

\* the non-empty fenced blocks of the assistant messages in the order of
\* the text, each with the name, language and content it resolves to; a
\* block without an inferred name takes the number after the count of
\* distinct names before it
RECURSIVE resolvedBlocks(_, _, _, _)
resolvedBlocks(ms, i, j, bs) ==
  IF i > Len(ms) THEN bs
  ELSE IF j > Len(ms[i].content) THEN resolvedBlocks(ms, i + 1, 1, bs)
  ELSE LET piece == ms[i].content[j]
           language == IF piece.lang # "" THEN piece.lang ELSE "text"
           inferred == extractFilename(ms[i].content, j)
           distinct == {bs[k].name : k \in 1..Len(bs)}
           name == IF inferred # NoName THEN inferred
                   ELSE Name("code", Cardinality(distinct) + 1,
                             getExtension(language))
       IN IF piece.kind = "block" /\ Trim(piece.body) # ""
          THEN resolvedBlocks(ms, i, j + 1,
                 Append(bs, ExtractedFile(name, mapLanguage(language),
                                          Trim(piece.body))))
          ELSE resolvedBlocks(ms, i, j + 1, bs)

Blocks == resolvedBlocks(SelectSeq(messages, isAssistant), 1, 1, <<>>)

\* the positions in bs of the first and of the last block of each name
FirstOf(bs, k) == \A h \in 1..(k-1) : bs[h].name # bs[k].name
LastOf(bs, k) == \A h \in (k+1)..Len(bs) : bs[h].name # bs[k].name

\* C13: the output holds one entry per distinct name, in the order in which
\* the names are first seen; the entry of a name has the language and the
\* content of the last block of that name.
C13_DedupByOverwrite ==
  LET bs == Blocks
      firsts == {k \in 1..Len(bs) : FirstOf(bs, k)}
  IN /\ Len(codeFiles) = Cardinality(firsts)
     /\ \A i, h \in 1..Len(codeFiles) :
          codeFiles[i].name = codeFiles[h].name => i = h
     /\ \A k \in firsts :
          LET pos == Cardinality({h \in firsts : h <= k})
          IN codeFiles[pos].name = bs[k].name
     /\ \A k \in 1..Len(bs) :
          LastOf(bs, k) =>
            \E i \in 1..Len(codeFiles) : codeFiles[i] = bs[k]

\* App.tsx is given twice, util.js in between: one App.tsx entry, first,
\* with the second body
C13_Witness ==
  /\ messages = << Message("assistant", TwoNamed),
                   Message("assistant", Rewrite) >>
  /\ codeFiles = << ExtractedFile(AppTsx, "javascript", "b3"),
                    ExtractedFile(UtilJs, "javascript", "b2") >>

\* C14: extracting again from the same messages gives the same list: the
\* scan of each message leaves the regular expression at lastIndex 0, so
\* that a scan, or a call, that starts where the last one ended finds what
\* a fresh one finds; and the list is empty when no assistant message holds
\* a non-empty fenced block.
C14_ExtractionIdempotent ==
  LET again == scanMessages(SelectSeq(messages, isAssistant), 1,
                            Scan(<<>>, 1, extractScan(messages).lastIndex))
  IN /\ extractScan(messages).lastIndex = 0
     /\ again.files = codeFiles
     /\ Len(codeFiles) = Cardinality({b.name : b \in
                                       {Blocks[k] : k \in 1..Len(Blocks)}})
     /\ Blocks = <<>> => codeFiles = <<>>

\* a user message with blocks, then two assistant messages whose blocks
\* are all found: the second message's scan starts at its first piece
C14_Witness ==
  /\ messages = << Message("user", TwoNamed), Message("assistant", Unnamed),
                   Message("assistant", Collide) >>
  /\ codeFiles = << ExtractedFile(Code1Js, "javascript", "b3"),
                    ExtractedFile(Name("code", 2, "txt"), "text", "b2"),
                    ExtractedFile(Name("code", 3, "py"), "python", "b1") >>

\* the source declares, at the start of a line, a capitalized component
\* that is not App
DeclaresOther(src) ==
  /\ src.form \in {"function", "const"}
  /\ src.lineStart /\ src.prefix <= 1
  /\ Capitalized(src.decl) /\ src.decl # "App"

\* C15: for such a source cleanReactCode returns a source in which the
\* declaration, the opening, self-closing and closing tags and the other
\* references of the component read App, and no export keyword is left.
C15_RenamedToApp ==
  (cleaned # <<>> /\ DeclaresOther(code)) =>
     /\ ~cleaned[1].threw
     /\ cleaned[1].code.decl = "App"
     /\ cleaned[1].code.tag \in {"none", "App"}
     /\ cleaned[1].code.selfTag \in {"none", "App"}
     /\ cleaned[1].code.ref \in {"none", "App"}
     /\ cleaned[1].code.prefix = 0
     /\ cleaned[1].code.refExport = "none"

\* C16: a second pass of cleanReactCode returns what the first returned,
\* and a source that declares App keeps its identifiers.
C16_NormalizerIdempotent ==
  /\ \A i \in 1..Len(cleaned) : ~cleaned[i].threw
  /\ Len(cleaned) >= 2 => cleaned[2] = cleaned[1]
  /\ (cleaned # <<>> /\ hasApp(code)) =>
       /\ cleaned[1].code.decl = code.decl
       /\ cleaned[1].code.tag = code.tag
       /\ cleaned[1].code.selfTag = code.selfTag

\* the step is a click on Run
Running == previewFiles' # previewFiles /\ messages' = messages

\* the previewed content of name overrides the extracted one
Overrides(name, content) ==
  /\ \E i \in 1..Len(previewFiles) :
       previewFiles[i].name = name /\ previewFiles[i].content = content
  /\ \E i \in 1..Len(codeFiles) :
       codeFiles[i].name = name /\ codeFiles[i].content # content

\* C17: Run gives the preview the extracted files in their order, each with
\* its edited content when the editor holds one; and a content that
\* overrides the extracted one is still previewed after the conversation
\* has grown.
C17_EditorOverride ==
  [][/\ Running =>
          /\ Len(previewFiles') = Len(codeFiles)
          /\ \A i \in 1..Len(codeFiles) :
               /\ previewFiles'[i].name = codeFiles[i].name
               /\ previewFiles'[i].language = codeFiles[i].language
               /\ previewFiles'[i].content =
                    IF codeFiles[i].name \in DOMAIN editedFiles
                    THEN editedFiles[codeFiles[i].name]
                    ELSE codeFiles[i].content
     /\ messages' # messages =>
          \A i \in 1..Len(previewFiles) :
            Overrides(previewFiles[i].name, previewFiles[i].content) =>
              \E h \in 1..Len(previewFiles') :
                /\ previewFiles'[h].name = previewFiles[i].name
                /\ previewFiles'[h].content = previewFiles[i].content]_vars

\* the step handles a preview-error posted by an execution host
HandlingError ==
  Delivering /\ Head(msgs).type = "preview-error" /\ Head(msgs).src = "host"

\* C18: a preview-error handled while retryCount < maxRetries and isLive is
\* true records the message, adds exactly 1 to retryCount and sets one
\* timer, whose firing adds exactly 1 to the generation; handled while
\* isLive is false it changes lastError only.
C18_RecoveringStep ==
  [][/\ (HandlingError /\ autoFixAttempts < MaxRetries /\ isLive) =>
          /\ error' = Head(msgs).error
          /\ autoFixAttempts' = autoFixAttempts + 1
          /\ timers' = timers + 1
          /\ key' = key
     /\ (HandlingError /\ ~isLive) =>
          /\ error' = Head(msgs).error
          /\ UNCHANGED <<isReady, autoFixAttempts, key, timers>>
     /\ timers' < timers => (timers' = timers - 1 /\ key' = key + 1)]_vars

\* C19: while a recovery timer is pending and neither the files, the
\* generation nor isLive have changed since the last render, no document is
\* loaded into the current host.
C19_ReloadOnlyAfterDelay ==
  [][(/\ timers > 0
      /\ host.key = key
      /\ seen.files = files /\ seen.key = key /\ seen.isLive = isLive
      /\ sync = "none") => ~HostLoaded]_vars

\* the document the update step synthesizes in the current state
CurrentDoc ==
  LET html == generatePreviewHtml(component, files, autoFixAttempts > 0, error)
  IN IF html.threw THEN NoDoc ELSE html.doc

\* C20: the generation never decreases and grows by 1 at a time; the render
\* that follows an increment mounts a fresh host of the current generation,
\* loaded with the document synthesized for the current files and retry
\* state (renders whose synthesis raises are left out).
C20_GenerationMonotone ==
  [][/\ key' >= key
     /\ key' # key => key' = key + 1
     /\ (/\ Committing
         /\ seen.key # key
         /\ ~generatePreviewHtml(component, files, autoFixAttempts > 0,
                                 error).threw) =>
          (host' = Host(key, CurrentDoc, FALSE) /\ CurrentDoc # NoDoc)]_vars

\* the step is one execution of the document loaded in the host
Executing == ~host.ran /\ host'.ran

\* the last notification of the queue after the step
Posted == msgs'[Len(msgs')]

\* C21: one execution of a component-style, plain-script or styles-only
\* document posts exactly one notification, preview-ready or preview-error;
\* it is preview-error exactly when App is not defined or the source
\* raises; and a document that has run posts nothing more until the
\* controller loads the host again.
C21_TrailerOneShot ==
  [][/\ (Executing /\ host.doc.strategy \in {"react", "plain", "css"}) =>
          /\ Len(msgs') = Len(msgs) + 1
          /\ Posted.type \in {"preview-ready", "preview-error"}
          /\ Posted.gen = host.key
          /\ Posted.type = "preview-error" <=>
               \/ host.doc.strategy = "react" /\ ~hasApp(host.doc.code)
               \/ host.doc.code.throws # "none"
     /\ (host.ran /\ ~HostLoaded) => Len(msgs') <= Len(msgs)]_vars

\* what the update step synthesizes in the current state
Synthesized ==
  generatePreviewHtml(component, files, autoFixAttempts > 0, error)

\* the kinds of file the strategies look for
PageFile == Find(files, {".html"})
SheetFile == Find(files, {".css"})
ScriptFile == Find(files, {".js", ".jsx", ".ts", ".tsx"})
ComponentStyle ==
  ScriptFile.content.text # "" /\ isReact(component, ScriptFile)

\* C22: the update step synthesizes by the fixed priority: the content of
\* the .html file as it is when there is one; else the component-style
\* document of the script; else the plain document of the raw script; else
\* the placeholder of the stylesheet; else the empty string, and an empty
\* result leaves the document of the host as it is (renders whose
\* synthesis raises are left out).
C22_StrategyPriority ==
  [][(Committing /\ ~effectSkips /\ ~Synthesized.threw) =>
       /\ IF PageFile # NoFile
          THEN Synthesized.doc =
                 IF PageFile.content.text = "" THEN NoDoc
                 ELSE Doc("html", PageFile.content, SheetFile.content.text)
          ELSE IF ComponentStyle
          THEN /\ Synthesized.doc.strategy = "react"
               /\ Synthesized.doc.css = SheetFile.content.text
          ELSE IF ScriptFile.content.text # ""
          THEN Synthesized.doc =
                 Doc("plain", ScriptFile.content, SheetFile.content.text)
          ELSE IF SheetFile.content.text # ""
          THEN Synthesized.doc = Doc("css", NoContent, SheetFile.content.text)
          ELSE Synthesized.doc = NoDoc
       /\ IF Synthesized.doc = NoDoc
          THEN host'.doc \in {NoDoc, host.doc}
          ELSE host'.doc = Synthesized.doc]_vars

\* the names of the non-empty blocks for which no name is inferred, in the
\* order of the text, numbered by a counter that starts at 1 and advances
\* with each of them only
RECURSIVE synthesizedNames(_, _, _, _, _)
synthesizedNames(ms, i, j, n, names) ==
  IF i > Len(ms) THEN names
  ELSE IF j > Len(ms[i].content) THEN synthesizedNames(ms, i + 1, 1, n, names)
  ELSE LET piece == ms[i].content[j]
           language == IF piece.lang # "" THEN piece.lang ELSE "text"
           unnamed == /\ piece.kind = "block"
                      /\ Trim(piece.body) # ""
                      /\ extractFilename(ms[i].content, j) = NoName
       IN IF unnamed
          THEN synthesizedNames(ms, i, j + 1, n + 1,
                 Append(names, Name("code", n, getExtension(language))))
          ELSE synthesizedNames(ms, i, j + 1, n, names)

\* C23: the k-th block without an inferred name is extracted under the name
\* code<k>.<ext>, <ext> being the extension of its language and txt for a
\* language the table does not list: blocks with inferred names consume no
\* number.
C23_SynthesizedNames ==
  LET names == synthesizedNames(SelectSeq(messages, isAssistant), 1, 1, 1, <<>>)
  IN \A k \in 1..Len(names) :
       \E i \in 1..Len(codeFiles) : codeFiles[i].name = names[k]

\* the name the three patterns give when tried in the order backtick-quoted
\* token, token after a keyword, bare token at the end of a line
inferredInOrder(prose) ==
  IF prose.tick # NoPath THEN LastPart(prose.tick)
  ELSE IF prose.kw # NoPath THEN LastPart(prose.kw)
  ELSE IF prose.bare # NoPath THEN LastPart(prose.bare)
  ELSE NoName

\* C24: a non-empty block that follows a text in which one of the patterns
\* finds a name is extracted under the name of the first pattern that
\* matches, in the order backtick-quoted token, token after a keyword, bare
\* token at the end of a line.
C24_InferenceOrder ==
  \A m \in 1..Len(messages) :
    \A j \in 2..Len(messages[m].content) :
      LET content == messages[m].content
      IN (/\ isAssistant(messages[m])
          /\ content[j].kind = "block" /\ Trim(content[j].body) # ""
          /\ content[j-1].kind = "prose"
          /\ inferredInOrder(content[j-1]) # NoName) =>
           /\ extractFilename(content, j) = inferredInOrder(content[j-1])
           /\ \E i \in 1..Len(codeFiles) :
                codeFiles[i].name = inferredInOrder(content[j-1])

\* the languages of the fenced blocks of the conversation
BlockLanguages ==
  UNION { {messages[m].content[j].lang : j \in 1..Len(messages[m].content)} :
          m \in {k \in 1..Len(messages) : isAssistant(messages[k])} } \ {""}

\* C25 (as stated): for the language L of a block, when the extension table
\* lists L the extension it gives normalizes to the language L normalizes
\* to, and when the normalization table lists L the extension of the
\* normalized language normalizes back to it.
C25_TablesInverse ==
  \A L \in BlockLanguages :
    /\ ToLowerCase(L) \in ExtensionKeys =>
         mapLanguage(getExtension(L)) = mapLanguage(L)
    /\ ToLowerCase(L) \in LanguageMapKeys =>
         mapLanguage(getExtension(mapLanguage(L))) = mapLanguage(L)

\* C25 (amended): the same for every language but markdown, whose extension
\* md is not a key of the normalization table; it holds for the languages
\* of the blocks and for every key of the two tables.
C25_CommonInverse ==
  \A L \in (BlockLanguages \cup ExtensionKeys \cup LanguageMapKeys) \ {"markdown"} :
    /\ ToLowerCase(L) \in ExtensionKeys =>
         mapLanguage(getExtension(L)) = mapLanguage(L)
    /\ ToLowerCase(L) \in LanguageMapKeys =>
         mapLanguage(getExtension(mapLanguage(L))) = mapLanguage(L)

\* blocks in js, TS, markdown, sh and css, none with a name, extracted
C25_Witness ==
  /\ messages = << Message("assistant", Unnamed), Message("assistant", Polyglot) >>
  /\ BlockLanguages = {"js", "TS", "markdown", "sh", "css"}
  /\ codeFiles = << ExtractedFile(Code1Js, "javascript", "b1"),
                    ExtractedFile(Name("code", 2, "txt"), "text", "b2"),
                    ExtractedFile(Name("code", 3, "md"), "markdown", "b1"),
                    ExtractedFile(Name("code", 4, "txt"), "shell", "b2"),
                    ExtractedFile(Name("code", 5, "css"), "css", "b3") >>

\* the rule triggers
Triggers(errorMsg) ==
  \/ IncludesIsNotDefined(errorMsg)
  \/ IncludesAdjacent(errorMsg)
  \/ IncludesUnexpectedToken(errorMsg)

\* C26: a call of autoFixCode never raises, and it returns the source as it
\* is when the error message holds none of the rule triggers.
C26_PatcherTotal ==
  \A i \in 1..Len(fixed) :
    /\ ~fixed[i].result.threw
    /\ ~Triggers(fixed[i].errorMsg) => fixed[i].result.code = code

\* a call with a message without trigger has returned the source, which a
\* call with one of the triggers would have changed
C26_Witness ==
  /\ fixed # <<>>
  /\ fixed[1].errorMsg = BoomMsg
  /\ fixed[1].result = Returned(code)
  /\ \E errorMsg \in PatchMsgs :
       /\ fixBuildsPattern(component, code, errorMsg)
       /\ autoFixCode(component, code, errorMsg) # Returned(code)

\* the capitalized name an error message reports as not defined, "" when
\* it reports none; the trailer's own message reports App
Reported(errorMsg) ==
  IF errorMsg \in {AppMissingMsg, AppRefMsg} THEN "App"
  ELSE IF errorMsg = ButtonRefMsg THEN "Button"
  ELSE ""

\* C27: when the error message reports a capitalized name as not defined
\* and the source declares a component under another name, the patched
\* source declares the component under the reported name and its tags
\* carry that name; for the trailer's report on App it declares App.
C27_RenamedToReported ==
  \A i \in 1..Len(fixed) :
    (/\ Reported(fixed[i].errorMsg) # ""
     /\ code.form \in {"function", "const"}
     /\ Capitalized(code.decl)
     /\ code.decl # Reported(fixed[i].errorMsg)) =>
       /\ ~fixed[i].result.threw
       /\ fixed[i].result.code.decl = Reported(fixed[i].errorMsg)
       /\ fixed[i].result.code.tag \in {"none", Reported(fixed[i].errorMsg)}
       /\ fixed[i].result.code.selfTag \in {"none", Reported(fixed[i].errorMsg)}

\* C28: retryCount stays between 0 and maxRetries.
C28_CountBounded == autoFixAttempts \in 0..MaxRetries

\* C29: ready and lastError exclude each other: a ready session has no
\* error recorded.
C29_ReadyHasNoError == isReady => error = Null

\* the step is an update step whose synthesis raises
SynthesisRaises == Committing /\ ~effectSkips /\ Synthesized.threw

\* C30 (as stated): an update step whose synthesis raises records the
\* message of the exception in lastError, changes neither retryCount nor
\* generation, sets no timer and leaves the document of the host in place;
\* and once lastError holds that message the render is complete, so that
\* the failing synthesis is not run again until something else changes.
C30_SynthesisContained ==
  [][SynthesisRaises =>
       /\ error' = Synthesized.msg
       /\ UNCHANGED <<autoFixAttempts, key, timers>>
       /\ host'.doc = host.doc
       /\ error = Synthesized.msg => seen' = Deps']_vars

\* C30 (amended): the same, but the host keeps its document only when the
\* render does not follow an increment of the generation; when it does,
\* the host of the new generation is mounted and stays blank.
C30_RaiseContained ==
  [][SynthesisRaises =>
       /\ error' = Synthesized.msg
       /\ UNCHANGED <<autoFixAttempts, key, timers>>
       /\ host' = IF host.key = key THEN host ELSE Host(key, NoDoc, FALSE)
       /\ error = Synthesized.msg => seen' = Deps']_vars

\* the files changed to a set whose synthesis raises while the document of
\* the set before was loaded: the message is recorded, the render is
\* complete and the document is still there
C30_Witness ==
  /\ component = "PreviewEngine"
  /\ files = FilesHello
  /\ Synthesized.threw
  /\ error = RegexMsg
  /\ seen = Deps
  /\ host = Host(key, Doc("react", GoodApp, ""), TRUE)
  /\ autoFixAttempts = 0
  /\ timers = 0
  /\ msgs = <<>>

====
